---- MODULE Spec2Model ----
(***************************************************************************)
(* Timeline event detection of styx-api: the three builders                *)
(* (build_timeline, build_progression_timeline, build_solar_arc_timeline), *)
(* the root finders they share and the angular arithmetic underneath.      *)
(*                                                                         *)
(* Time is a grid of integer ticks; one tick is the resolution at which    *)
(* the 40-step bisection of _find_root has converged.  Longitudes are      *)
(* whole numbers of 1/Deg degree on the 360 degree circle, and no body      *)
(* moves more than one degree in a tick, so that a longitude passing a     *)
(* value does so at a tick.  The step sizes, the length of the year and    *)
(* the number of ticks in a second are scaled down so that whole ranges    *)
(* can be enumerated; the ratios that matter (coarse step > fine step >    *)
(* tick, year > day) are kept.                                             *)
(***************************************************************************)
EXTENDS Integers, Sequences, FiniteSets, TLC

VARIABLES mode, natal_chart, start_ts, end_ts, level, bodies_arg, eph,
          pc, events, swallowed, t0, roots, house_fault, fell_back,
          args, result, gathered, ephe_files, _EPHE_VALIDATED, calls, previous,
          _LUNATIONS_CACHE

vars == <<mode, natal_chart, start_ts, end_ts, level, bodies_arg, eph,
          pc, events, swallowed, t0, roots, house_fault, fell_back,
          args, result, gathered, ephe_files, _EPHE_VALIDATED, calls, previous,
          _LUNATIONS_CACHE>>

(***************************************************************************)
(* Bounds and scales                                                       *)
(***************************************************************************)
\* latest tick a requested range may end at
MaxT == 12
\* days per year of the day-for-a-year rule (365.25 in the source), scaled
YearLen == 4
\* longitude units in a degree: a body that moves a degree a day moves one unit
\* in an ephemeris unit
Deg == YearLen
\* ticks per second: the sub-second resolution of a datetime (10^6), scaled
TicksPerSecond == 2
\* iterations of the bisection loop
BisectSteps == 40
\* Python's None where an instant is expected (no instant is negative)
None == -1

\* STEP_SCHEDULE_DAYS = [30, 7, 1, 1/24, 1/1440] days, scaled to ticks
STEP_SCHEDULE_DAYS == <<8, 4, 2>>

Abs(v) == IF v < 0 THEN -v ELSE v
Min(a, b) == IF a <= b THEN a ELSE b
Max(a, b) == IF a >= b THEN a ELSE b

(***************************************************************************)
(* Angular arithmetic (astro.py)                                           *)
(***************************************************************************)
\* longitudes and angles are in units of 1/Deg degree
_normalize_deg(value) == value % (360 * Deg)

\* the wrap that keeps +180 and maps -180 to it
_normalize_signed_deg_upper(value) == 180 * Deg - ((180 * Deg - value) % (360 * Deg))

_normalize_signed_deg(value) == ((value + 180 * Deg) % (360 * Deg)) - 180 * Deg

\* the deviation from the angle alone, whatever the angle
_aspect_delta_d1(lon_a, lon_b, angle) ==
    _normalize_signed_deg(((lon_b - lon_a) % (360 * Deg)) - angle)

_aspect_delta(lon_a, lon_b, angle) ==
    LET delta == (lon_b - lon_a) % (360 * Deg)
        d1 == _normalize_signed_deg(delta - angle)
        d2 == _normalize_signed_deg(delta - (360 * Deg - angle))
    IN  IF angle \in {0, 180 * Deg} THEN d1
        ELSE IF Abs(d1) <= Abs(d2) THEN d1 ELSE d2

(***************************************************************************)
(* Root finding (progression_timeline.py, solar_arc_timeline.py,           *)
(* timeline.py).  A scanned function is passed as a TLA+ function over the *)
(* ticks it may be evaluated at.                                           *)
(***************************************************************************)
\* the for loop of _find_root.  After the last step the bracket is narrower
\* than a tick and its midpoint is an instant between two ticks: it is read at
\* the upper one, where the bracket closes in on (a zero of func on the grid
\* is always the upper end b, and so is the limit when func never changes sign)
RECURSIVE _find_root_loop(_, _, _, _)
_find_root_loop(func, a, b, steps) ==
    IF steps = 0 THEN (a + b + 1) \div 2
    ELSE LET mid == (a + b) \div 2
         IN  IF func[a] * func[mid] <= 0
             THEN _find_root_loop(func, a, mid, steps - 1)
             ELSE _find_root_loop(func, mid, b, steps - 1)

_find_root(func, a, b) ==
    IF func[a] = 0 THEN a
    ELSE IF func[b] = 0 THEN b
    ELSE _find_root_loop(func, a, b, BisectSteps)

\* the while loop of _scan_brackets_ts, from sample t on (prev = func[t])
RECURSIVE _scan_brackets_loop(_, _, _, _)
_scan_brackets_loop(func, t, end, step) ==
    IF ~(t < end) THEN <<>>
    ELSE LET t_next == Min(t + step, end)
             found == IF func[t] = 0 THEN << <<t, t>> >>
                      ELSE IF func[t] * func[t_next] <= 0 THEN << <<t, t_next>> >>
                      ELSE <<>>
         IN  found \o _scan_brackets_loop(func, t_next, end, step)

_scan_brackets_ts(func, start, end, step) == _scan_brackets_loop(func, start, end, step)

\* refined.extend(_scan_brackets_ts(func, a, b, step)) for every bracket
RECURSIVE _refine(_, _, _)
_refine(func, brackets, step) ==
    IF brackets = <<>> THEN <<>>
    ELSE _scan_brackets_ts(func, Head(brackets)[1], Head(brackets)[2], step)
         \o _refine(func, Tail(brackets), step)

\* sorted(set): the ascending sequence of a finite set of integers
RECURSIVE SortedSeq(_)
SortedSeq(S) ==
    IF S = {} THEN <<>>
    ELSE LET m == CHOOSE x \in S : \A y \in S : x <= y
         IN  <<m>> \o SortedSeq(S \ {m})

\* round(r, 6): a tick is the rounding unit, so a tick count is its own rounding
RoundUnit == 1
round6(r) == ((2 * r + RoundUnit) \div (2 * RoundUnit)) * RoundUnit

\* the for loop over STEP_SCHEDULE_DAYS of _adaptive_roots_ts, from level k on;
\* <<>> as soon as a pass leaves no bracket
RECURSIVE _adaptive_roots_levels(_, _, _)
_adaptive_roots_levels(func, brackets, k) ==
    IF k > Len(STEP_SCHEDULE_DAYS) THEN brackets
    ELSE LET refined == _refine(func, brackets, STEP_SCHEDULE_DAYS[k])
         IN  IF refined = <<>> THEN <<>>
             ELSE _adaptive_roots_levels(func, refined, k + 1)

\* _adaptive_roots_ts without the set that removes a root found twice
_adaptive_roots_all(func, start, end) ==
    LET brackets == _adaptive_roots_levels(func, << <<start, end>> >>, 1)
    IN  [i \in 1..Len(brackets) |-> round6(_find_root(func, brackets[i][1], brackets[i][2]))]

_adaptive_roots_ts(func, start, end) ==
    LET brackets == _adaptive_roots_levels(func, << <<start, end>> >>, 1)
    IN  SortedSeq({round6(_find_root(func, brackets[i][1], brackets[i][2])) :
                      i \in 1..Len(brackets)})

\* the for loop of _adaptive_crossing_ts: a pass that finds nothing keeps the
\* brackets of the pass before
RECURSIVE _adaptive_crossing_levels(_, _, _)
_adaptive_crossing_levels(func, brackets, k) ==
    IF k > Len(STEP_SCHEDULE_DAYS) THEN brackets
    ELSE LET refined == _refine(func, brackets, STEP_SCHEDULE_DAYS[k])
         IN  _adaptive_crossing_levels(func,
                 IF refined # <<>> THEN refined ELSE brackets, k + 1)

_adaptive_crossing_ts(func, start, end, forward) ==
    IF start = end THEN start
    ELSE LET brackets == _adaptive_crossing_levels(func, << <<start, end>> >>, 1)
             chosen == IF forward THEN brackets[1] ELSE brackets[Len(brackets)]
         IN  _find_root(func, chosen[1], chosen[2])

(***************************************************************************)
(* Configuration tables (config.py, timeline.py, progression_timeline.py)  *)
(***************************************************************************)
PLANET_ORDER == <<"sun", "moon", "mercury", "venus", "mars", "jupiter",
                  "saturn", "uranus", "neptune", "pluto">>
OUTER_EXCLUDE == {"uranus", "neptune", "pluto"}
ANGLE_KEYS == <<"asc", "dsc", "mc", "ic">>
ASPECT_ANGLES == <<0, 60, 90, 120, 180>>
PROGRESSION_ORB_DEFAULT == 2

TRANSIT_ORB_TABLE ==
    [k \in {"jupiter", "saturn", "uranus", "neptune", "pluto", "nodes"} |->
        CASE k \in {"jupiter", "saturn"} -> 3
          [] k \in {"uranus", "neptune", "pluto"} -> 4
          [] OTHER -> 2]

LEVEL_BODIES ==
    [l \in {"level1", "level2", "outer", "jupiter", "saturn", "uranus",
            "neptune", "pluto", "nodes"} |->
        CASE l \in {"level1", "outer"} -> <<"uranus", "neptune", "pluto">>
          [] l = "level2" -> <<"saturn", "jupiter">>
          [] l = "nodes" -> <<"nn", "sn">>
          [] OTHER -> <<l>>]

STEP_DAYS ==
    [b \in {"jupiter", "saturn", "uranus", "neptune", "pluto", "nn", "sn"} |->
        CASE b \in {"jupiter", "saturn"} -> 3
          [] b \in {"uranus", "neptune", "pluto"} -> 5
          [] OTHER -> 2]

SeqToSet(s) == {s[i] : i \in 1..Len(s)}

RECURSIVE SelectSeq2(_, _)
\* [x for x in s if x not in excluded]
SelectSeq2(s, excluded) ==
    IF s = <<>> THEN <<>>
    ELSE (IF Head(s) \in excluded THEN <<>> ELSE <<Head(s)>>)
         \o SelectSeq2(Tail(s), excluded)

(***************************************************************************)
(* The ephemeris (swe.calc_ut behind _calc_body) and the house angles      *)
(* (swe.houses behind _calc_houses): opaque collaborators.  An ephemeris   *)
(* instant is a Julian day written as a count of 1/YearLen days, so that   *)
(* the progressed instant natal + (t - natal)/YearLen is exact.  eph holds *)
(* the parameters of one ephemeris: where the bodies stand at unit 0, the  *)
(* direction they set out in and the unit at which every body but the      *)
(* luminaries turns; the file covers the units eph.lo..eph.hi and a lookup  *)
(* outside them fails.                                                     *)
(***************************************************************************)
SWE_BODIES == <<"sun", "moon", "mercury", "venus", "mars", "jupiter",
                "saturn", "uranus", "neptune", "pluto", "nn">>

BodyIndex(name) == CHOOSE i \in 1..Len(SWE_BODIES) : SWE_BODIES[i] = name

\* where the body stands at unit 0: the bodies are 50 degrees apart
BodyPhase(name) == (eph.lon0 + 50 * Deg * (BodyIndex(name) - 1)) % (360 * Deg)

Stations(name) == name \notin {"sun", "moon"}

\* longitude units a body moves in an ephemeris unit: the moon and the inner
\* planets a degree, the sun and the slow bodies a unit
DailyMotion(name) == IF name \in {"moon", "mercury", "venus", "mars"} THEN Deg ELSE 1

swe_calc_ut_lon(e, name) ==
    LET turned == Stations(name) /\ e > eph.station
        path == IF turned THEN 2 * eph.station - e ELSE e
    IN  (BodyPhase(name) + eph.dir * DailyMotion(name) * path) % (360 * Deg)

swe_calc_ut_speed(e, name) ==
    IF Stations(name) /\ e = eph.station THEN 0
    ELSE IF Stations(name) /\ e > eph.station THEN -(eph.dir * DailyMotion(name))
    ELSE eph.dir * DailyMotion(name)

\* swe.calc_ut raises: _calc_body raises RuntimeError("calc_failed:...")
calc_failed(e) == e < eph.lo \/ e > eph.hi

_calc_body(e, name) ==
    [lon |-> _normalize_deg(swe_calc_ut_lon(e, name)),
     speed |-> swe_calc_ut_speed(e, name)]

\* the ascendant and the midheaven of swe.houses at an ephemeris instant
swe_houses_asc(e) == (eph.lon0 + 7 * Deg + Deg * e) % (360 * Deg)
swe_houses_mc(e) == (swe_houses_asc(e) + 270 * Deg) % (360 * Deg)

\* _to_jd of an instant: whole days as ephemeris units
_to_jd(t) == YearLen * t

\* the real interval added to the natal instant, undivided
_progressed_jd_undivided(natal_t, target_t) == YearLen * (natal_t + (target_t - natal_t))

\* _progressed_jd: natal + (target - natal) / 365.25 days
_progressed_jd(natal_t, target_t) == YearLen * natal_t + (target_t - natal_t)

(***************************************************************************)
(* Timestamps: datetime.isoformat().replace("+00:00", "Z").  A string is   *)
(* the sequence of its character codes; the date and time of day, of fixed *)
(* width, are written as the two digits of the whole seconds.              *)
(***************************************************************************)
ChDot == 46
ChZero == 48
ChZ == 90

Digits(n, width) == [i \in 1..width |-> ChZero + ((n \div (10 ^ (width - i))) % 10)]

isoformat(t) ==
    LET micro == t % TicksPerSecond
    IN  Digits(t \div TicksPerSecond, 2)
        \o (IF micro = 0 THEN <<>> ELSE <<ChDot>> \o Digits(micro, 6))
        \o <<ChZ>>

\* Python's s1 < s2 on strings
RECURSIVE StrLess(_, _)
StrLess(s1, s2) ==
    IF s2 = <<>> THEN FALSE
    ELSE IF s1 = <<>> THEN TRUE
    ELSE IF Head(s1) # Head(s2) THEN Head(s1) < Head(s2)
    ELSE StrLess(Tail(s1), Tail(s2))

\* list.sort(key=lambda item: item["transit_start"]): stable
RECURSIVE InsertSorted(_, _)
InsertSorted(sorted, item) ==
    IF sorted = <<>> THEN <<item>>
    ELSE IF StrLess(item.transit_start, Head(sorted).transit_start)
         THEN <<item>> \o sorted
         ELSE <<Head(sorted)>> \o InsertSorted(Tail(sorted), item)

RECURSIVE SortFrom(_, _)
SortFrom(sorted, rest) ==
    IF rest = <<>> THEN sorted
    ELSE SortFrom(InsertSorted(sorted, Head(rest)), Tail(rest))

\* the list returned as the loops appended to it
sort_events_skipped(evs) == evs

sort_events(evs) == SortFrom(<<>>, evs)

(***************************************************************************)
(* The natal chart and its targets                                         *)
(***************************************************************************)
Ticks == 0..MaxT

\* the names of seq that are keys of the mapping m, with their longitudes
RECURSIVE TargetsIn(_, _)
TargetsIn(seq, m) ==
    IF seq = <<>> THEN <<>>
    ELSE (IF Head(seq) \in DOMAIN m
          THEN << [name |-> Head(seq), lon |-> m[Head(seq)]] >> ELSE <<>>)
         \o TargetsIn(Tail(seq), m)

\* timeline._natal_targets and progression_timeline._natal_targets: bodies (a
\* chart lists them in PLANET_ORDER), then angles, then points
_natal_targets(chart) ==
    TargetsIn(PLANET_ORDER, chart.bodies)
    \o TargetsIn(ANGLE_KEYS, chart.angles)
    \o TargetsIn(<<"nn", "sn">>, chart.points)

(***************************************************************************)
(* Phases and events                                                       *)
(***************************************************************************)
\* `value or default`: None and 0.0 are both false
OrElse(value, default) == IF value = None \/ value = 0 THEN default ELSE value

Phase(exact_index, phase, t, station) ==
    [exact_index |-> exact_index, phase |-> phase,
     timestamp_utc |-> isoformat(t), transit_station |-> station]

PhaseNames == <<"approaching", "exact", "separating">>

\* the three phases of every hit, hit k carrying exact_index k; hits[k].tags
\* are the station tags of its three instants
PhasesFrom(hits) ==
    [i \in 1..(3 * Len(hits)) |->
        LET k == ((i - 1) \div 3) + 1
            j == ((i - 1) % 3) + 1
            t == IF j = 1 THEN hits[k].entry
                 ELSE IF j = 2 THEN hits[k].exact ELSE hits[k].exit
        IN  Phase(k, PhaseNames[j], t, hits[k].tags[j])]

\* the latest instant taken where the earliest is wanted
MinOf_latest(S) == CHOOSE x \in S : \A y \in S : x >= y

MinOf(S) == CHOOSE x \in S : \A y \in S : x <= y
MaxOf(S) == CHOOSE x \in S : \A y \in S : x >= y

\* events.append(...) if phases: no event for a triple without a hit
EventOf(body, target_name, angle, hits) ==
    IF hits = <<>> THEN <<>>
    ELSE << [transit_body |-> body,
             natal_body |-> target_name,
             aspect |-> angle,
             transit_start |-> isoformat(MinOf({hits[k].entry : k \in 1..Len(hits)})),
             transit_end |-> isoformat(MaxOf({hits[k].exit : k \in 1..Len(hits)})),
             phases |-> PhasesFrom(hits)] >>

\* _adaptive_hits with the two orb searches taken on the wrong side of the exact
\* instant
_adaptive_hits_swapped(delta_at, orb_func, start, end) ==
    LET exact_ts_list == _adaptive_roots_ts(delta_at, start, end)
    IN  [k \in 1..Len(exact_ts_list) |->
            [entry |-> OrElse(_adaptive_crossing_ts(orb_func, exact_ts_list[k], end, TRUE), end),
             exact |-> exact_ts_list[k],
             exit |-> OrElse(_adaptive_crossing_ts(orb_func, start, exact_ts_list[k], FALSE), start)]]

\* the hits of one triple in build_progression_timeline and
\* build_solar_arc_timeline: every root with its orb entry and exit
_adaptive_hits(delta_at, orb_func, start, end) ==
    LET exact_ts_list == _adaptive_roots_ts(delta_at, start, end)
    IN  [k \in 1..Len(exact_ts_list) |->
            [entry |-> OrElse(_adaptive_crossing_ts(orb_func, start, exact_ts_list[k], FALSE), start),
             exact |-> exact_ts_list[k],
             exit |-> OrElse(_adaptive_crossing_ts(orb_func, exact_ts_list[k], end, TRUE), end)]]

RECURSIVE Flatten(_)
Flatten(seqs) == IF seqs = <<>> THEN <<>> ELSE Head(seqs) \o Flatten(Tail(seqs))

\* for target in targets: for angle in ASPECT_ANGLES: the iterations in order,
\* and the target and the angle of the i-th
Iterations(targets) == 1..(Len(targets) * Len(ASPECT_ANGLES))
TargetAt(targets, i) == targets[((i - 1) \div Len(ASPECT_ANGLES)) + 1]
AngleAt(i) == ASPECT_ANGLES[((i - 1) % Len(ASPECT_ANGLES)) + 1]

\* hits with the station tags of their instants, read off tag_at
Tagged(hits, tag_at) ==
    [k \in 1..Len(hits) |->
        [entry |-> hits[k].entry, exact |-> hits[k].exact, exit |-> hits[k].exit,
         tags |-> <<tag_at[hits[k].entry], tag_at[hits[k].exact], tag_at[hits[k].exit]>>]]

(***************************************************************************)
(* build_progression_timeline                                              *)
(***************************************************************************)
\* half a day, in ephemeris units
HalfDay == YearLen \div 2

\* the lookups of jd - 0.5 and jd + 0.5 sit in a try block: a failure of
\* either is caught and the flag is None
_station_flag_swallows(e) == calc_failed(e - HalfDay) \/ calc_failed(e + HalfDay)

\* the two kinds taken for each other
_station_flag_swapped(e, name) ==
    IF _station_flag_swallows(e) THEN "None"
    ELSE LET s1 == _calc_body(e - HalfDay, name).speed
             s2 == _calc_body(e + HalfDay, name).speed
         IN  IF s1 = 0 \/ s2 = 0 THEN "None"
             ELSE IF s1 > 0 /\ s2 < 0 THEN "D"
             ELSE IF s1 < 0 /\ s2 > 0 THEN "R"
             ELSE "None"

_station_flag(e, name) ==
    IF _station_flag_swallows(e) THEN "None"
    ELSE LET s1 == _calc_body(e - HalfDay, name).speed
             s2 == _calc_body(e + HalfDay, name).speed
         IN  IF s1 = 0 \/ s2 = 0 THEN "None"
             ELSE IF s1 > 0 /\ s2 < 0 THEN "R"
             ELSE IF s1 < 0 /\ s2 > 0 THEN "D"
             ELSE "None"

_progressed_body_info(e, name) ==
    IF name \in SeqToSet(ANGLE_KEYS)
    THEN LET asc == swe_houses_asc(e)
             mc == swe_houses_mc(e)
         IN  [lon |-> CASE name = "asc" -> asc
                        [] name = "dsc" -> _normalize_deg(asc + 180 * Deg)
                        [] name = "mc" -> mc
                        [] OTHER -> _normalize_deg(mc + 180 * Deg),
              station |-> "None"]
    ELSE [lon |-> _calc_body(e, name).lon, station |-> _station_flag(e, name)]

progressed_bodies == SelectSeq2(PLANET_ORDER, OUTER_EXCLUDE) \o ANGLE_KEYS

\* the first and the last instant a scan of [start, end] evaluates
Sampled(start, end) == IF start < end THEN {start, end} ELSE {start}

\* one iteration of `for prog_body in ...`: the events of one progressed body
_progression_body(prog_body, chart, start, end) ==
    LET orb == IF prog_body \in DOMAIN TRANSIT_ORB_TABLE
               THEN TRANSIT_ORB_TABLE[prog_body] ELSE PROGRESSION_ORB_DEFAULT
        info == [t \in Ticks |->
                    _progressed_body_info(_progressed_jd(chart.timestamp, t), prog_body)]
        event_of(target, angle) ==
            LET delta_at == [t \in Ticks |-> _aspect_delta(info[t].lon, target.lon, angle * Deg)]
                orb_func == [t \in Ticks |-> Abs(delta_at[t]) - orb * Deg]
                station == [t \in Ticks |-> info[t].station]
            IN  EventOf(prog_body, target.name, angle,
                        Tagged(_adaptive_hits(delta_at, orb_func, start, end), station))
        targets == _natal_targets(chart)
    IN  Flatten([i \in Iterations(targets) |-> event_of(TargetAt(targets, i), AngleAt(i))])

\* a _calc_body inside lon_at raises (planets only: the angles come from the houses)
_progression_raises(chart, start, end) ==
    /\ _natal_targets(chart) # <<>>
    /\ \E t \in Sampled(start, end) : calc_failed(_progressed_jd(chart.timestamp, t))

\* a _calc_body inside _station_flag fails and is caught
_progression_swallows(chart, start, end) ==
    /\ _natal_targets(chart) # <<>>
    /\ \E t \in Sampled(start, end) :
          _station_flag_swallows(_progressed_jd(chart.timestamp, t))

(***************************************************************************)
(* build_solar_arc_timeline                                                *)
(***************************************************************************)
_sun_lon(t) == _calc_body(_to_jd(t), "sun").lon

_arc_at(t, natal_sun_lon) == _normalize_deg(_sun_lon(t) - natal_sun_lon)

_solar_arc_body(chart, body, arc) ==
    LET src == IF body \in {"nn", "sn"} THEN chart.points[body] ELSE chart.bodies[body]
    IN  _normalize_deg(src + arc)

\* the phases of build_solar_arc_timeline carry no station
NoStation == [t \in Ticks |-> "None"]

\* one iteration of `for body in bodies`
_solar_arc_events(body, chart, start, end) ==
    LET orb == IF body \in DOMAIN TRANSIT_ORB_TABLE
               THEN TRANSIT_ORB_TABLE[body] ELSE TRANSIT_ORB_TABLE["nodes"]
        lon == [t \in Ticks |-> _solar_arc_body(chart, body, _arc_at(t, chart.bodies["sun"]))]
        event_of(target, angle) ==
            LET delta_at == [t \in Ticks |-> _aspect_delta(lon[t], target.lon, angle * Deg)]
                orb_func == [t \in Ticks |-> Abs(delta_at[t]) - orb * Deg]
            IN  EventOf(body, target.name, angle,
                        Tagged(_adaptive_hits(delta_at, orb_func, start, end), NoStation))
        targets == _natal_targets(chart)
    IN  Flatten([i \in Iterations(targets) |-> event_of(TargetAt(targets, i), AngleAt(i))])

_solar_arc_raises(chart, bodies, start, end) ==
    /\ bodies # <<>>
    /\ _natal_targets(chart) # <<>>
    /\ \E t \in Sampled(start, end) : calc_failed(_to_jd(t))

(***************************************************************************)
(* build_timeline: stations, station-delimited segments, one search per    *)
(* segment                                                                 *)
(***************************************************************************)
\* the 1e-6 day of _segment_times and the 1e-4 day of the station tag, in ticks
SEG_EPS == 1
TAG_EPS == 2

_body_position(jd, body_key) ==
    IF body_key = "sn"
    THEN LET nn == _calc_body(_to_jd(jd), "nn")
         IN  [lon |-> _normalize_deg(nn.lon + 180 * Deg), speed |-> -nn.speed]
    ELSE _calc_body(_to_jd(jd), body_key)

_speed(jd, body_key) ==
    IF body_key = "sn" THEN -_calc_body(_to_jd(jd), "nn").speed
    ELSE _calc_body(_to_jd(jd), body_key).speed

\* the while loop of _find_stations, from sample jd on
RECURSIVE _find_stations_loop(_, _, _, _, _)
_find_stations_loop(speed_at, jd, end_jd, step, prev_speed) ==
    IF ~(jd <= end_jd) THEN <<>>
    ELSE LET speed == speed_at[jd]
             prev == IF prev_speed = 0 THEN speed ELSE prev_speed
             kind == IF prev > 0 THEN "R" ELSE "D"
             found == IF speed = 0 THEN << [jd |-> jd, kind |-> kind] >>
                      ELSE IF (prev > 0 /\ speed < 0) \/ (prev < 0 /\ speed > 0)
                      THEN << [jd |-> _find_root(speed_at, jd - step, jd), kind |-> kind] >>
                      ELSE <<>>
         IN  found \o _find_stations_loop(speed_at, jd + step, end_jd, step, speed)

\* stations.sort(key=lambda s: s.jd): stable
RECURSIVE InsertStation(_, _)
InsertStation(sorted, st) ==
    IF sorted = <<>> THEN <<st>>
    ELSE IF st.jd < Head(sorted).jd THEN <<st>> \o sorted
    ELSE <<Head(sorted)>> \o InsertStation(Tail(sorted), st)

RECURSIVE SortStations(_, _)
SortStations(sorted, rest) ==
    IF rest = <<>> THEN sorted
    ELSE SortStations(InsertStation(sorted, Head(rest)), Tail(rest))

_find_stations(body_key, start_jd, end_jd) ==
    LET speed_at == [t \in Ticks |-> _speed(t, body_key)]
        step == STEP_DAYS[body_key]
    IN  SortStations(<<>>, _find_stations_loop(speed_at, start_jd + step, end_jd, step,
                                               speed_at[start_jd]))

\* the last instant _find_stations looks the speed up at
LastStationSample(body_key, start_jd, end_jd) ==
    IF end_jd < start_jd THEN start_jd
    ELSE start_jd + ((end_jd - start_jd) \div STEP_DAYS[body_key]) * STEP_DAYS[body_key]

NoStationRec == [jd |-> None, kind |-> "None"]

\* the last station within SEG_EPS of jd, if any
RECURSIVE StationNear(_, _, _)
StationNear(stations, jd, found) ==
    IF stations = <<>> THEN found
    ELSE StationNear(Tail(stations), jd,
                     IF Abs(Head(stations).jd - jd) < SEG_EPS THEN Head(stations) ELSE found)

RECURSIVE InnerPoints(_, _, _)
InnerPoints(stations, start_jd, end_jd) ==
    IF stations = <<>> THEN <<>>
    ELSE (IF start_jd < Head(stations).jd /\ Head(stations).jd < end_jd
          THEN <<Head(stations).jd>> ELSE <<>>)
         \o InnerPoints(Tail(stations), start_jd, end_jd)

_segment_times(start_jd, end_jd, stations) ==
    LET boundaries == <<start_jd>> \o InnerPoints(stations, start_jd, end_jd) \o <<end_jd>>
    IN  [i \in 1..(Len(boundaries) - 1) |->
            [seg_start |-> boundaries[i],
             seg_end |-> boundaries[i + 1],
             start_station |-> StationNear(stations, boundaries[i], NoStationRec),
             end_station |-> StationNear(stations, boundaries[i + 1], NoStationRec)]]

_find_exact_in_segment(delta, seg_start, seg_end) ==
    IF delta[seg_start] = 0 THEN seg_start
    ELSE IF delta[seg_end] = 0 THEN seg_end
    ELSE IF delta[seg_start] * delta[seg_end] > 0 THEN None
    ELSE _find_root(delta, seg_start, seg_end)

_find_orb_crossing(f, a, b) ==
    IF f[a] = 0 THEN a
    ELSE IF f[b] = 0 THEN b
    ELSE IF f[a] * f[b] > 0 THEN None
    ELSE _find_root(f, a, b)

\* `if x is None: x = default`
IfNone(value, default) == IF value = None THEN default ELSE value

\* the loop over the segments of one triple: the hit of every segment that has one
_segment_hits(delta, f, segments) ==
    Flatten([i \in 1..Len(segments) |->
        LET seg == segments[i]
            exact_jd == _find_exact_in_segment(delta, seg.seg_start, seg.seg_end)
        IN  IF exact_jd = None THEN <<>>
            ELSE << [entry |-> IfNone(_find_orb_crossing(f, seg.seg_start, exact_jd), seg.seg_start),
                     exact |-> exact_jd,
                     exit |-> IfNone(_find_orb_crossing(f, exact_jd, seg.seg_end), seg.seg_end),
                     start_station |-> seg.start_station,
                     end_station |-> seg.end_station] >>])

\* the tag taken from the station that ends the segment only
_station_tag_end_only(hit, jd) ==
    IF hit.end_station # NoStationRec /\ Abs(hit.end_station.jd - jd) < TAG_EPS
    THEN hit.end_station.kind
    ELSE "None"

\* the station tag of a phase at jd in the segment of hit
_station_tag(hit, jd) ==
    IF hit.end_station # NoStationRec /\ Abs(hit.end_station.jd - jd) < TAG_EPS
    THEN hit.end_station.kind
    ELSE IF hit.start_station # NoStationRec /\ Abs(hit.start_station.jd - jd) < TAG_EPS
    THEN hit.start_station.kind
    ELSE "None"

\* the hits of the segments with the station tags of their three instants
_segment_tagged(hits) ==
    [k \in 1..Len(hits) |->
        [entry |-> hits[k].entry, exact |-> hits[k].exact, exit |-> hits[k].exit,
         tags |-> <<_station_tag(hits[k], hits[k].entry),
                    _station_tag(hits[k], hits[k].exact),
                    _station_tag(hits[k], hits[k].exit)>>]]

\* one iteration of `for transit_body in bodies`
_timeline_body(transit_body, chart, start_jd, end_jd) ==
    LET orb == IF transit_body \in {"nn", "sn"} THEN TRANSIT_ORB_TABLE["nodes"]
               ELSE TRANSIT_ORB_TABLE[transit_body]
        stations == _find_stations(IF transit_body = "sn" THEN "nn" ELSE transit_body,
                                   start_jd, end_jd)
        segments == _segment_times(start_jd, end_jd, stations)
        lon == [t \in Ticks |-> _body_position(t, transit_body).lon]
        event_of(target, angle) ==
            LET delta == [t \in Ticks |-> _aspect_delta(lon[t], target.lon, angle * Deg)]
                f == [t \in Ticks |-> Abs(delta[t]) - orb * Deg]
            IN  EventOf(transit_body, target.name, angle,
                        _segment_tagged(_segment_hits(delta, f, segments)))
        targets == _natal_targets(chart)
    IN  Flatten([i \in Iterations(targets) |-> event_of(TargetAt(targets, i), AngleAt(i))])

\* a _calc_body of the call raises
_timeline_raises(chart, bodies, start_jd, end_jd) ==
    \E i \in 1..Len(bodies) :
        \/ calc_failed(_to_jd(start_jd))
        \/ calc_failed(_to_jd(LastStationSample(bodies[i], start_jd, end_jd)))
        \/ _natal_targets(chart) # <<>> /\ calc_failed(_to_jd(end_jd))

(***************************************************************************)
(* Calls.  Init is a call about to be made: the natal chart and the range  *)
(* the caller passes, the ephemeris the process runs on.  Each action is   *)
(* one whole call of a builder, its final sort included, and ends in       *)
(* "done" (the events are returned) or "error" (the builder raised).       *)
(***************************************************************************)
NatalCharts ==
    { [timestamp |-> 1,
       bodies |-> [n \in {"sun"} |-> 10 * Deg],
       angles |-> [n \in {} |-> 0],
       points |-> [n \in {} |-> 0]],
      [timestamp |-> 2,
       bodies |-> [n \in {"sun"} |-> 0],
       angles |-> [n \in {"asc"} |-> 275 * Deg],
       points |-> [n \in {} |-> 0]] }

\* an ephemeris file that covers every instant asked for ...
StartLons == {0, 5, 85, 181, 183}

Motions ==
    [lon0 : {d * Deg : d \in StartLons}, dir : {1, -1},
     station : {YearLen * 3, YearLen * MaxT + 100}]

\* ... and one that starts late
Ephemerides ==
    { [lon0 |-> m.lon0, dir |-> m.dir, station |-> m.station,
       lo |-> -1000, hi |-> 1000] : m \in Motions }
    \cup { [lon0 |-> 0, dir |-> d, station |-> YearLen * MaxT + 100,
            lo |-> YearLen + 1, hi |-> 1000] : d \in {1, -1} }

\* level and bodies of a /v1/timeline request, as main.py passes them on
TimelineArgs ==
    { [level |-> "level2", given |-> FALSE, list |-> <<>>],
      [level |-> "pluto", given |-> FALSE, list |-> <<>>],
      [level |-> "outer", given |-> TRUE, list |-> <<"nn", "sn">>] }

\* the bodies a caller of build_solar_arc_timeline passes
SolarArcArgs == { [level |-> "level2", given |-> TRUE, list |-> <<"sun">>] }

ProgressionArgs == { [level |-> "level2", given |-> FALSE, list |-> <<>>] }

\* the process a call is made in: the ephemeris directory _resolve_ephe_path
\* finds, the module's flag, the calls made so far and the result of the call
\* before this one
Process == <<ephe_files, _EPHE_VALIDATED, calls, previous>>

\* a call in a process that made none before, with the ephemeris files installed
FirstCall ==
    /\ ephe_files = "present"
    /\ _EPHE_VALIDATED = FALSE
    /\ calls = 1
    /\ previous = <<>>

\* the test of the flag inverted
_ensure_ephe_path_unvalidated == ~_EPHE_VALIDATED

\* the required files are looked for while the flag is unset
_ensure_ephe_path_validated == _EPHE_VALIDATED

\* _ensure_ephe_path raises: no directory, or, the first time, a required file
\* missing from it
_ensure_ephe_path_raises ==
    \/ ephe_files = "no_path"
    \/ ~_ensure_ephe_path_validated /\ ephe_files = "missing"

\* what the house routines of the ephemeris library do in the process: both
\* work, swe.house_pos raises, or swe.houses raises
HouseFaults == {"none", "house_pos", "houses"}

\* _calc_houses: swe.houses raises and RuntimeError("houses_calc_failed") leaves
\* the builder
_calc_houses_raises == house_fault = "houses"

\* _assign_house: swe.house_pos raises, the exception is caught and the house is
\* read from the cusps by _house_from_cusps
_assign_house_falls_back == house_fault = "house_pos"

\* _transit_house_info and _solar_arc_house_info are called for every phase of
\* every hit: with no hit they are not called
\* the failure of swe.houses caught like the failure of swe.house_pos
_phase_house_caught(evs) == FALSE

_phase_house_raises(evs) == evs # <<>> /\ _calc_houses_raises

_phase_house_falls_back(evs) == evs # <<>> /\ _assign_house_falls_back

\* _progressed_body_info calls _progressed_context in every lon_at, and
\* _assign_house in every lon_at of a planet
_progressed_context_raises(chart) == _natal_targets(chart) # <<>> /\ _calc_houses_raises

_progressed_house_falls_back(chart) ==
    _natal_targets(chart) # <<>> /\ _assign_house_falls_back

Init ==
    /\ mode \in {"transit", "progression", "solar_arc"}
    /\ natal_chart \in NatalCharts
    /\ start_ts \in {1, 3}
    /\ end_ts \in start_ts..MaxT
    /\ \E a \in (CASE mode = "transit" -> TimelineArgs
                   [] mode = "progression" -> ProgressionArgs
                   [] OTHER -> SolarArcArgs) :
          /\ level = a.level
          /\ bodies_arg = [given |-> a.given, list |-> a.list]
    /\ eph \in Ephemerides
    /\ pc = "call"
    /\ events = <<>>
    /\ swallowed = FALSE
    /\ t0 = None
    /\ roots = <<>>
    /\ house_fault \in HouseFaults
    /\ fell_back = FALSE
    /\ args = <<>>
    /\ result = None
    /\ gathered = <<>>
    /\ FirstCall
    /\ _LUNATIONS_CACHE = <<>>

Inputs == <<mode, natal_chart, start_ts, end_ts, level, bodies_arg, eph, t0, house_fault,
            args, _LUNATIONS_CACHE>>

Raise == pc' = "error" /\ events' = <<>> /\ gathered' = <<>>

\* events.sort(key=lambda e: e["transit_start"]) on the list the loops appended
\* to, in the order they appended
Return(evs) == gathered' = evs /\ pc' = "done" /\ events' = sort_events(gathered')

\* the bodies of the level, whatever the caller asked for
timeline_bodies_of_level == LEVEL_BODIES[level]

\* bodies = LEVEL_BODIES[level] if bodies is None
timeline_bodies == IF bodies_arg.given THEN bodies_arg.list ELSE LEVEL_BODIES[level]

build_timeline ==
    /\ pc = "call" /\ mode = "transit"
    /\ LET evs == Flatten([i \in 1..Len(timeline_bodies) |->
                _timeline_body(timeline_bodies[i], natal_chart, start_ts, end_ts)])
       IN  IF _ensure_ephe_path_raises
           THEN Raise /\ UNCHANGED <<fell_back, _EPHE_VALIDATED>>
           ELSE /\ _EPHE_VALIDATED' = TRUE
                /\ IF _timeline_raises(natal_chart, timeline_bodies, start_ts, end_ts)
                   THEN Raise /\ UNCHANGED fell_back
                   ELSE IF _phase_house_raises(evs)
                   THEN Raise /\ UNCHANGED fell_back
                   ELSE Return(evs) /\ fell_back' = _phase_house_falls_back(evs)
    /\ UNCHANGED <<Inputs, swallowed, roots, result, ephe_files, calls, previous>>

build_progression_timeline ==
    /\ pc = "call" /\ mode = "progression"
    /\ IF _ensure_ephe_path_raises
       THEN Raise /\ UNCHANGED <<swallowed, fell_back, _EPHE_VALIDATED>>
       ELSE /\ _EPHE_VALIDATED' = TRUE
            /\ IF \/ _progression_raises(natal_chart, start_ts, end_ts)
                  \/ _progressed_context_raises(natal_chart)
               THEN Raise /\ UNCHANGED <<swallowed, fell_back>>
               ELSE /\ Return(Flatten([i \in 1..Len(progressed_bodies) |->
                        _progression_body(progressed_bodies[i], natal_chart,
                                          start_ts, end_ts)]))
                    /\ swallowed' = _progression_swallows(natal_chart, start_ts, end_ts)
                    /\ fell_back' = _progressed_house_falls_back(natal_chart)
    /\ UNCHANGED <<Inputs, roots, result, ephe_files, calls, previous>>

build_solar_arc_timeline ==
    /\ pc = "call" /\ mode = "solar_arc"
    /\ LET evs == Flatten([i \in 1..Len(bodies_arg.list) |->
                _solar_arc_events(bodies_arg.list[i], natal_chart, start_ts, end_ts)])
       IN  IF _ensure_ephe_path_raises
           THEN Raise /\ UNCHANGED <<fell_back, _EPHE_VALIDATED>>
           ELSE /\ _EPHE_VALIDATED' = TRUE
                /\ IF _solar_arc_raises(natal_chart, bodies_arg.list, start_ts, end_ts)
                   THEN Raise /\ UNCHANGED fell_back
                   ELSE IF _phase_house_raises(evs)
                   THEN Raise /\ UNCHANGED fell_back
                   ELSE Return(evs) /\ fell_back' = _phase_house_falls_back(evs)
    /\ UNCHANGED <<Inputs, swallowed, roots, result, ephe_files, calls, previous>>

Next == build_timeline \/ build_progression_timeline \/ build_solar_arc_timeline

Spec == Init /\ [][Next]_vars

(***************************************************************************)
(* Calls after calls in one process.  The module's flag _EPHE_VALIDATED    *)
(* outlives a call; the ephemeris directory is the one the process was     *)
(* started with.  Between two calls of a builder the process may serve a   *)
(* call of another entry point, which runs _ensure_ephe_path as well.      *)
(***************************************************************************)
\* calls of the same builder made in a process
MaxCalls == 2

InitCalls ==
    /\ mode \in {"transit", "progression", "solar_arc"}
    /\ natal_chart \in NatalCharts
    /\ start_ts \in {1, 3}
    /\ end_ts \in start_ts..MaxT
    /\ \E a \in (CASE mode = "transit" -> TimelineArgs
                   [] mode = "progression" -> ProgressionArgs
                   [] OTHER -> SolarArcArgs) :
          /\ level = a.level
          /\ bodies_arg = [given |-> a.given, list |-> a.list]
    /\ eph \in Ephemerides
    /\ pc = "call"
    /\ events = <<>>
    /\ swallowed = FALSE
    /\ t0 = None
    /\ roots = <<>>
    /\ house_fault = "none"
    /\ fell_back = FALSE
    /\ args = <<>>
    /\ result = None
    /\ gathered = <<>>
    /\ ephe_files \in {"present", "missing", "no_path"}
    /\ _EPHE_VALIDATED = FALSE
    /\ calls = 1
    /\ previous = <<>>
    /\ _LUNATIONS_CACHE = <<>>

\* the caller calls the same builder with the same arguments once more
call_again ==
    /\ pc \in {"done", "error"}
    /\ mode \in {"transit", "progression", "solar_arc"}
    /\ calls < MaxCalls
    /\ calls' = calls + 1
    /\ previous' = <<pc, events>>
    /\ pc' = "call"
    /\ events' = <<>>
    /\ gathered' = <<>>
    /\ swallowed' = FALSE
    /\ fell_back' = FALSE
    /\ UNCHANGED <<Inputs, roots, result, ephe_files, _EPHE_VALIDATED>>

\* a call of another entry point of the process: its _ensure_ephe_path
other_call ==
    /\ mode \in {"transit", "progression", "solar_arc"}
    /\ ~_ensure_ephe_path_raises
    /\ ~_EPHE_VALIDATED
    /\ _EPHE_VALIDATED' = TRUE
    /\ UNCHANGED <<Inputs, pc, events, gathered, swallowed, fell_back, roots, result,
                   ephe_files, calls, previous>>

NextCalls == Next \/ call_again \/ other_call

SpecCalls == InitCalls /\ [][NextCalls]_vars

(***************************************************************************)
(* The root finder on its own: _adaptive_roots_ts applied to a linear      *)
(* function f(t) = t - t0.  t0 is counted in half ticks, so that it may    *)
(* lie between two ticks, and f in half ticks with it.                     *)
(***************************************************************************)
Linear(z) == [t \in Ticks |-> 2 * t - z]

InitRoots ==
    /\ mode = "roots"
    /\ natal_chart = [timestamp |-> 0, bodies |-> <<>>, angles |-> <<>>, points |-> <<>>]
    /\ start_ts \in Ticks
    /\ end_ts \in start_ts..MaxT
    /\ level = "level2"
    /\ bodies_arg = [given |-> FALSE, list |-> <<>>]
    /\ eph = [lon0 |-> 0, dir |-> 1, station |-> 0, lo |-> 0, hi |-> 0]
    /\ pc = "call"
    /\ events = <<>>
    /\ swallowed = FALSE
    /\ t0 \in 0..(2 * MaxT)
    /\ roots = <<>>
    /\ house_fault = "none"
    /\ fell_back = FALSE
    /\ args = <<>>
    /\ result = None
    /\ gathered = <<>>
    /\ FirstCall
    /\ _LUNATIONS_CACHE = <<>>

adaptive_roots ==
    /\ pc = "call" /\ mode = "roots"
    /\ roots' = _adaptive_roots_ts(Linear(t0), start_ts, end_ts)
    /\ pc' = "done"
    /\ UNCHANGED <<Inputs, events, swallowed, fell_back, result, gathered, Process>>

NextRoots == adaptive_roots

SpecRoots == InitRoots /\ [][NextRoots]_vars

(***************************************************************************)
(* _aspect_delta on its own: a call with a moving longitude, a target      *)
(* longitude and an aspect angle, and the calls a scan makes after it as   *)
(* the moving longitude advances by one unit.                              *)
(***************************************************************************)
\* what a call of a builder leaves alone in a call of a function on its own
Idle == <<natal_chart, start_ts, end_ts, level, bodies_arg, eph, events, swallowed,
          t0, roots, house_fault, fell_back, gathered, Process, _LUNATIONS_CACHE>>

IdleInit ==
    /\ natal_chart = [timestamp |-> 0, bodies |-> <<>>, angles |-> <<>>, points |-> <<>>]
    /\ start_ts = 0
    /\ end_ts = 0
    /\ level = "level2"
    /\ bodies_arg = [given |-> FALSE, list |-> <<>>]
    /\ events = <<>>
    /\ swallowed = FALSE
    /\ t0 = None
    /\ roots = <<>>
    /\ house_fault = "none"
    /\ fell_back = FALSE
    /\ gathered = <<>>
    /\ FirstCall
    /\ _LUNATIONS_CACHE = <<>>

\* the target longitudes of the natal charts above, and two on the wrap
TargetLons == {0, 10 * Deg, 275 * Deg, 180 * Deg, 360 * Deg - 1}

InitAspect ==
    /\ mode = "aspect"
    /\ IdleInit
    /\ eph = [lon0 |-> 0, dir |-> 1, station |-> 0, lo |-> 0, hi |-> 0]
    /\ args \in [lon_a : 0..(360 * Deg - 1), lon_b : TargetLons,
                  angle : {a * Deg : a \in SeqToSet(ASPECT_ANGLES)}]
    /\ pc = "call"
    /\ result = None

aspect_delta ==
    /\ pc = "call" /\ mode = "aspect"
    /\ result' = _aspect_delta(args.lon_a, args.lon_b, args.angle)
    /\ pc' = "done"
    /\ UNCHANGED <<mode, Idle, args>>

\* the next sample of a scan: the moving longitude is one unit further
next_sample ==
    /\ pc = "done" /\ mode = "aspect"
    /\ args' = [args EXCEPT !.lon_a = _normalize_deg(@ + 1)]
    /\ result' = _aspect_delta(args'.lon_a, args.lon_b, args.angle)
    /\ UNCHANGED <<mode, Idle, pc>>

NextAspect == aspect_delta \/ next_sample

SpecAspect == InitAspect /\ [][NextAspect]_vars

(***************************************************************************)
(* lon_at of build_progression_timeline on its own: the progressed instant *)
(* of a real instant and the longitude of a progressed planet there.       *)
(***************************************************************************)
\* latest natal instant of a call of lon_at
MaxNatal == 3

InitProgressed ==
    /\ mode = "lon_at"
    /\ IdleInit
    /\ eph \in Ephemerides
    /\ args \in [natal : 0..MaxNatal, target : Ticks,
                  body : SeqToSet(SelectSeq2(PLANET_ORDER, OUTER_EXCLUDE))]
    /\ pc = "call"
    /\ result = None

lon_at ==
    /\ pc = "call" /\ mode = "lon_at"
    /\ LET jd == _progressed_jd(args.natal, args.target)
       IN  IF calc_failed(jd)
           THEN pc' = "error" /\ UNCHANGED result
           ELSE /\ pc' = "done"
                /\ result' = [jd |-> jd, lon |-> _progressed_body_info(jd, args.body).lon]
    /\ UNCHANGED <<mode, Idle, args>>

NextProgressed == lon_at

SpecProgressed == InitProgressed /\ [][NextProgressed]_vars

(***************************************************************************)
(* The loops, one iteration a step: the while loop of _scan_brackets_ts    *)
(* inside the for loops of _adaptive_roots_ts, the for loop of _find_root, *)
(* and the while loop of _find_stations.  The scanned function is linear,  *)
(* the speed is the ephemeris's.                                           *)
(***************************************************************************)
\* the sample the scan does not move on from
_scan_next_stuck(t, step, end) == Min(t, end)

\* t_next = min(t + step_seconds, end_ts)
_scan_next(t, step, end) == Min(t + step, end)

\* the locals of _adaptive_roots_ts at its first scan
ScanLocals(start, end) ==
    [level |-> 1, todo |-> << <<start, end>> >>, refined |-> <<>>, t |-> start,
     a |-> start, b |-> end, left |-> BisectSteps, found |-> <<>>]

InitLoops ==
    /\ IdleInit
    /\ \/ /\ mode = "scan"
          /\ eph = [lon0 |-> 0, dir |-> 1, station |-> 0, lo |-> 0, hi |-> 0]
          /\ args \in [start : {0, 1, 3}, end : Ticks, zero : 0..(2 * MaxT)]
          /\ args.start <= args.end
          /\ result = ScanLocals(args.start, args.end)
       \/ /\ mode = "stations"
          /\ eph \in Ephemerides
          /\ args \in [start : {1, 3}, end : Ticks, body : DOMAIN STEP_DAYS \ {"sn"}]
          /\ args.start <= args.end
          /\ result = [jd |-> args.start, prev_speed |-> None, found |-> <<>>]
    /\ pc = "loop"

\* the bracket the loops are at
AtBracket(r) == Head(r.todo)

\* for a, b in brackets: the locals as the loop goes on to the brackets of rest
StartAt(r, rest) ==
    [r EXCEPT !.todo = rest,
              !.t = IF rest = <<>> THEN r.t ELSE Head(rest)[1],
              !.a = IF rest = <<>> THEN r.a ELSE Head(rest)[1],
              !.b = IF rest = <<>> THEN r.b ELSE Head(rest)[2],
              !.left = BisectSteps]

NextBracket(r) == StartAt(r, Tail(r.todo))

\* one iteration of the while loop of _scan_brackets_ts on the bracket at hand,
\* or its exit to the bracket after it
scan_step ==
    /\ pc = "loop" /\ mode = "scan" /\ result.todo # <<>>
    /\ LET func == Linear(args.zero)
           end == AtBracket(result)[2]
           t == result.t
           t_next == _scan_next(t, STEP_SCHEDULE_DAYS[result.level], end)
           found == IF func[t] = 0 THEN << <<t, t>> >>
                    ELSE IF func[t] * func[t_next] <= 0 THEN << <<t, t_next>> >>
                    ELSE <<>>
       IN  result' = IF t < end
                     THEN [result EXCEPT !.refined = @ \o found, !.t = t_next]
                     ELSE NextBracket(result)
    /\ UNCHANGED <<mode, Idle, args, pc>>

\* one iteration of the for loop over STEP_SCHEDULE_DAYS, after its scans
schedule_step ==
    /\ pc = "loop" /\ mode = "scan" /\ result.todo = <<>>
    /\ IF result.refined = <<>>
       THEN pc' = "done" /\ result' = [result EXCEPT !.found = <<>>]
       ELSE /\ result' = StartAt([result EXCEPT !.refined = <<>>, !.level = @ + 1],
                                 result.refined)
            /\ pc' = IF result.level = Len(STEP_SCHEDULE_DAYS) THEN "bisect" ELSE "loop"
    /\ UNCHANGED <<mode, Idle, args>>

\* _find_root on the bracket at hand: its two tests, one iteration of its for
\* loop, or its return
find_root_step ==
    /\ pc = "bisect" /\ mode = "scan" /\ result.todo # <<>>
    /\ LET func == Linear(args.zero)
           a == result.a
           b == result.b
           mid == (a + b) \div 2
       IN  result' =
             IF result.left = BisectSteps /\ func[AtBracket(result)[1]] = 0
             THEN NextBracket([result EXCEPT !.found = Append(@, round6(a))])
             ELSE IF result.left = BisectSteps /\ func[AtBracket(result)[2]] = 0
             THEN NextBracket([result EXCEPT !.found = Append(@, round6(b))])
             ELSE IF result.left = 0
             THEN NextBracket([result EXCEPT
                                 !.found = Append(@, round6((a + b + 1) \div 2))])
             ELSE IF func[a] * func[mid] <= 0
             THEN [result EXCEPT !.b = mid, !.left = @ - 1]
             ELSE [result EXCEPT !.a = mid, !.left = @ - 1]
    /\ UNCHANGED <<mode, Idle, args, pc>>

\* return sorted({round(r, 6) for r in roots})
return_roots ==
    /\ pc = "bisect" /\ mode = "scan" /\ result.todo = <<>>
    /\ result' = [result EXCEPT !.found = SortedSeq(SeqToSet(@))]
    /\ pc' = "done"
    /\ UNCHANGED <<mode, Idle, args>>

\* _find_stations: its first sample, one iteration of its while loop, or its
\* return
find_stations_step ==
    /\ pc = "loop" /\ mode = "stations"
    /\ LET step == STEP_DAYS[args.body]
           jd == result.jd
       IN  IF result.prev_speed = None /\ jd = args.start
           THEN IF calc_failed(_to_jd(jd))
                THEN pc' = "error" /\ UNCHANGED result
                ELSE /\ result' = [result EXCEPT !.prev_speed = _speed(jd, args.body),
                                                 !.jd = jd + step]
                     /\ UNCHANGED pc
           ELSE IF ~(jd <= args.end)
           THEN /\ result' = [result EXCEPT !.found = SortStations(<<>>, @)]
                /\ pc' = "done"
           ELSE IF calc_failed(_to_jd(jd))
           THEN pc' = "error" /\ UNCHANGED result
           ELSE /\ result' =
                     [result EXCEPT
                        !.found = @ \o _find_stations_loop(
                                          [t \in Ticks |-> _speed(t, args.body)],
                                          jd, jd, step, result.prev_speed),
                        !.prev_speed = _speed(jd, args.body),
                        !.jd = jd + step]
                /\ UNCHANGED pc
    /\ UNCHANGED <<mode, Idle, args>>

NextLoops ==
    scan_step \/ schedule_step \/ find_root_step \/ return_roots \/ find_stations_step

\* a call that has started runs on: nothing suspends or cancels it
SpecLoops == InitLoops /\ [][NextLoops]_vars /\ WF_vars(NextLoops)

(***************************************************************************)
(* Vocabulary of the properties                                            *)
(***************************************************************************)
\* the instant a timestamp string denotes
Instant(str) == CHOOSE t \in Ticks : isoformat(t) = str

TargetLon(name) ==
    LET targets == _natal_targets(natal_chart)
    IN  targets[CHOOSE i \in 1..Len(targets) : targets[i].name = name].lon

\* the longitude of the moving body of the call at instant t
MovingLon(body, t) ==
    CASE mode = "transit" -> _body_position(t, body).lon
      [] mode = "progression" ->
            _progressed_body_info(_progressed_jd(natal_chart.timestamp, t), body).lon
      [] OTHER -> _solar_arc_body(natal_chart, body, _arc_at(t, natal_chart.bodies["sun"]))

\* the delta function f of a triple
DeltaOf(body, target_name, angle) ==
    [t \in Ticks |-> _aspect_delta(MovingLon(body, t), TargetLon(target_name), angle * Deg)]

OrbOf(body) ==
    CASE mode = "transit" ->
            IF body \in {"nn", "sn"} THEN TRANSIT_ORB_TABLE["nodes"] ELSE TRANSIT_ORB_TABLE[body]
      [] mode = "progression" ->
            IF body \in DOMAIN TRANSIT_ORB_TABLE THEN TRANSIT_ORB_TABLE[body]
            ELSE PROGRESSION_ORB_DEFAULT
      [] OTHER ->
            IF body \in DOMAIN TRANSIT_ORB_TABLE THEN TRANSIT_ORB_TABLE[body]
            ELSE TRANSIT_ORB_TABLE["nodes"]

\* the bodies the call selects
SelectedBodies ==
    CASE mode = "transit" ->
            IF bodies_arg.given THEN SeqToSet(bodies_arg.list) ELSE SeqToSet(LEVEL_BODIES[level])
      [] mode = "progression" ->
            {"sun", "moon", "mercury", "venus", "mars", "jupiter", "saturn",
             "asc", "dsc", "mc", "ic"}
      [] OTHER -> SeqToSet(bodies_arg.list)

\* the finest step of the schedule (one minute in the source)
FinestStep == STEP_SCHEDULE_DAYS[Len(STEP_SCHEDULE_DAYS)]

\* f is zero at t.  A longitude moves at most a degree a tick from one whole
\* degree to the next, so f passes through zero only at a tick: a change of
\* sign between two ticks is a jump of f
ZeroAt(f, t) == f[t] = 0

EventsOf == {events[i] : i \in 1..Len(events)}

FOf(ev) == DeltaOf(ev.transit_body, ev.natal_body, ev.aspect)

\* the hits of an event: the instants of its k-th group of three phases
Hits(ev) ==
    [k \in 1..(Len(ev.phases) \div 3) |->
        [entry |-> Instant(ev.phases[3 * k - 2].timestamp_utc),
         exact |-> Instant(ev.phases[3 * k - 1].timestamp_utc),
         exit |-> Instant(ev.phases[3 * k].timestamp_utc)]]

HitsOf(ev) == {Hits(ev)[k] : k \in 1..Len(Hits(ev))}

(***************************************************************************)
(* Properties                                                              *)
(***************************************************************************)
\* C1: every exact phase is at an instant where the signed aspect delta is zero
\* to within the bisection tolerance; a change of sign at a jump of the delta
\* function is never reported as an exact hit.
C1_ExactIsZero ==
    pc = "done" =>
        \A ev \in EventsOf : \A h \in HitsOf(ev) : ZeroAt(FOf(ev), h.exact)

Targets == {_natal_targets(natal_chart)[i] : i \in 1..Len(_natal_targets(natal_chart))}

Triple(ev) == <<ev.transit_body, ev.natal_body, ev.aspect>>

\* C2: every instant of the range at which the delta function of a triple passes
\* through zero has an exact phase of that triple's event within the finest step.
C2_EveryZeroReported ==
    pc = "done" =>
        \A body \in SelectedBodies : \A target \in Targets : \A angle \in SeqToSet(ASPECT_ANGLES) :
            \A t \in start_ts..end_ts :
                ZeroAt(DeltaOf(body, target.name, angle), t) =>
                    \E ev \in EventsOf :
                        /\ Triple(ev) = <<body, target.name, angle>>
                        /\ \E h \in HitsOf(ev) : Abs(h.exact - t) <= FinestStep

\* |f| - orb of an event
GOf(ev) == [t \in Ticks |-> Abs(FOf(ev)[t]) - OrbOf(ev.transit_body) * Deg]

\* C3: a hit whose delta stays inside the orb from the range start on has its
\* approaching instant at the range start, and one whose delta stays inside the
\* orb up to the range end has its separating instant at the range end.
C3_ClampToRange ==
    pc = "done" =>
        \A ev \in EventsOf : \A h \in HitsOf(ev) :
            /\ (\A t \in start_ts..h.exact : GOf(ev)[t] < 0) => h.entry = start_ts
            /\ (\A t \in h.exact..end_ts : GOf(ev)[t] < 0) => h.exit = end_ts

\* C4: with start <= end, approaching <= exact <= separating for every hit and
\* transit_start <= transit_end for every event, as instants.
C4_Ordering ==
    (pc = "done" /\ start_ts <= end_ts) =>
        \A ev \in EventsOf :
            /\ Instant(ev.transit_start) <= Instant(ev.transit_end)
            /\ \A h \in HitsOf(ev) : h.entry <= h.exact /\ h.exact <= h.exit

\* a call that returned a hit whose three instants are all different, in an
\* event of more than one hit
C4_Witness ==
    /\ pc = "done" /\ start_ts <= end_ts
    /\ \E ev \in EventsOf :
          /\ Len(Hits(ev)) >= 2
          /\ \E h \in HitsOf(ev) : h.entry < h.exact /\ h.exact < h.exit

\* C5: the returned events are in non-decreasing order of the instant
\* transit_start.
C5_SortedByStart ==
    pc = "done" =>
        \A i, j \in 1..Len(events) :
            i < j => Instant(events[i].transit_start) <= Instant(events[j].transit_start)

\* C6: a call during which an ephemeris lookup failed raises and returns no
\* events.
C6_LookupFailureIsFatal ==
    /\ pc = "done" => ~swallowed
    /\ pc = "error" => events = <<>>

\* C7: for a linear f(t) = t - t0 with start < t0 < end, _adaptive_roots_ts
\* returns exactly one root, no further from t0 than the finest step.
C7_LinearRoot ==
    (pc = "done" /\ mode = "roots" /\ 2 * start_ts < t0 /\ t0 < 2 * end_ts) =>
        /\ Len(roots) = 1
        /\ Abs(2 * roots[1] - t0) <= 2 * FinestStep

\* a range of more than one coarse step with t0 on a sample of the finest pass, found
\* once
C7_Witness ==
    /\ pc = "done" /\ mode = "roots"
    /\ 2 * start_ts < t0 /\ t0 < 2 * end_ts
    /\ end_ts - start_ts > STEP_SCHEDULE_DAYS[1]
    /\ t0 % 2 = 0 /\ (t0 \div 2 - start_ts) % FinestStep = 0
    /\ roots = <<t0 \div 2>>

\* C8: when |f| equals the orb somewhere before the exact instant, the
\* approaching instant is the latest such instant; when it does somewhere after
\* it, the separating instant is the earliest such instant.
C8_NearestOrbCrossing ==
    pc = "done" =>
        \A ev \in EventsOf : \A h \in HitsOf(ev) :
            LET before == {t \in start_ts..h.exact : GOf(ev)[t] = 0}
                after == {t \in h.exact..end_ts : GOf(ev)[t] = 0}
            IN  ZeroAt(FOf(ev), h.exact) =>
                    /\ before # {} => h.entry = MaxOf(before)
                    /\ after # {} => h.exit = MinOf(after)

\* the search of the call finds a hit of the triple
HasHit(body, target, angle) ==
    LET delta == DeltaOf(body, target.name, angle)
        f == [t \in Ticks |-> Abs(delta[t]) - OrbOf(body) * Deg]
    IN  IF mode = "transit"
        THEN \E seg \in SeqToSet(_segment_times(start_ts, end_ts,
                    _find_stations(IF body = "sn" THEN "nn" ELSE body, start_ts, end_ts))) :
                \/ delta[seg.seg_start] = 0
                \/ delta[seg.seg_end] = 0
                \/ delta[seg.seg_start] * delta[seg.seg_end] < 0
        ELSE _adaptive_roots_ts(delta, start_ts, end_ts) # <<>>

\* C9: the events correspond one to one to the triples of a selected body, a
\* target and an aspect angle that have an exact hit in the range.
C9_OneEventPerTriple ==
    pc = "done" =>
        /\ \A ev \in EventsOf : ev.transit_body \in SelectedBodies
        /\ \A i, j \in 1..Len(events) : Triple(events[i]) = Triple(events[j]) => i = j
        /\ \A body \in SelectedBodies : \A target \in Targets : \A angle \in SeqToSet(ASPECT_ANGLES) :
              HasHit(body, target, angle)
                  <=> \E ev \in EventsOf : Triple(ev) = <<body, target.name, angle>>

\* a call with a body override that returned several events and left a triple of
\* a selected body without one
C9_Witness ==
    /\ pc = "done" /\ mode = "transit" /\ bodies_arg.given
    /\ Len(events) >= 2
    /\ \E body \in SelectedBodies : \E target \in Targets : \E angle \in SeqToSet(ASPECT_ANGLES) :
          /\ ~HasHit(body, target, angle)
          /\ \A ev \in EventsOf : Triple(ev) # <<body, target.name, angle>>

\* C10: the phases of an event are n >= 1 groups of approaching, exact,
\* separating; group k carries exact_index k; the exact instants increase.
C10_PhaseGroups ==
    pc = "done" =>
        \A ev \in EventsOf :
            /\ Len(ev.phases) >= 3
            /\ Len(ev.phases) % 3 = 0
            /\ \A i \in 1..Len(ev.phases) :
                  /\ ev.phases[i].phase = PhaseNames[((i - 1) % 3) + 1]
                  /\ ev.phases[i].exact_index = ((i - 1) \div 3) + 1
            /\ \A k \in 1..(Len(Hits(ev)) - 1) : Hits(ev)[k].exact < Hits(ev)[k + 1].exact

\* C11: in every returned event transit_start is the minimum of the approaching
\* instants and transit_end the maximum of the separating instants of the hits
\* its phases list.
C11_WindowIsMinMax ==
    pc = "done" =>
        \A ev \in EventsOf :
            /\ \E h \in HitsOf(ev) : Instant(ev.transit_start) = h.entry
            /\ \A h \in HitsOf(ev) : Instant(ev.transit_start) <= h.entry
            /\ \E h \in HitsOf(ev) : Instant(ev.transit_end) = h.exit
            /\ \A h \in HitsOf(ev) : Instant(ev.transit_end) >= h.exit

\* an event of two hits that differ in their approaching and in their separating
\* instants
C11_Witness ==
    /\ pc = "done"
    /\ \E ev \in EventsOf : \E h1, h2 \in HitsOf(ev) :
          h1.entry < h2.entry /\ h1.exit < h2.exit

C13_ReversalGivesStation ==
    (pc = "done" /\ mode = "transit") =>
        \A i \in 1..Len(timeline_bodies) :
            LET body == timeline_bodies[i]
                key == IF body = "sn" THEN "nn" ELSE body
                stations == _find_stations(key, start_ts, end_ts)
            IN  (\E t1, t2 \in start_ts..end_ts :
                    _speed(t1, key) > 0 /\ _speed(t2, key) < 0)
                => /\ stations # <<>>
                   /\ \A k \in 1..Len(stations) :
                          start_ts <= stations[k].jd /\ stations[k].jd <= end_ts

\* C14: if the house-position lookup for the moving body raises at a phase
\* instant, the builder aborts with an error: it never returns events computed
\* after a house lookup that raised.
C14_HouseFailureIsFatal == pc = "done" => ~fell_back

\* C14, amended: if the computation of the house cusps (swe.houses) raises, a
\* builder that reaches a phase instant aborts with an error instead of
\* returning events; a house-position lookup (swe.house_pos) that raises is
\* replaced by the house read from the cusps.
C14_CuspFailureIsFatal == (pc = "done" /\ house_fault = "houses") => events = <<>>

\* a call aborted though every ephemeris lookup succeeds: swe.houses raised
C14_Witness == pc = "error" /\ house_fault = "houses" /\ eph.lo < 0

\* C15: as the moving longitude advances by one unit, the result of
\* _aspect_delta changes by at most one unit, except where it jumps between
\* +180 and -180 degrees; this for every aspect angle, 60, 90 and 120 included.
C15_ContinuousButAtWrap ==
    [][(mode = "aspect" /\ pc = "done" /\ pc' = "done")
        => \/ Abs(result' - result) <= 1
           \/ /\ Abs(result) >= 180 * Deg - 1
              /\ Abs(result') >= 180 * Deg - 1
              /\ result * result' < 0]_vars

\* C16: for longitudes in [0, 360) and every aspect angle the result of
\* _aspect_delta lies in (-180, 180] degrees.
C16_HalfOpenRange ==
    (mode = "aspect" /\ pc = "done") =>
        (-180 * Deg < result /\ result <= 180 * Deg)

\* C16, amended: for longitudes in [0, 360) and every aspect angle the result of
\* _aspect_delta lies in [-180, 180) degrees: it can equal -180 and never +180.
C16_RangeOfCode ==
    (mode = "aspect" /\ pc = "done") =>
        (-180 * Deg <= result /\ result < 180 * Deg)

\* a call that returns -180 degrees
C16_Witness == mode = "aspect" /\ pc = "done" /\ result = -180 * Deg

\* the separation of a call of _aspect_delta
Separation == (args.lon_b - args.lon_a) % (360 * Deg)

\* the distance of two longitudes on the circle
CircularDistance(x, y) == Min(Abs(x - y), 360 * Deg - Abs(x - y))

\* C17: _aspect_delta is 0 exactly when the separation (lon_b - lon_a) mod 360
\* equals the angle or 360 - angle, and its magnitude is the smaller of the
\* circular distances of the separation to the angle and to 360 - angle.
C17_ZeroAndMagnitude ==
    (mode = "aspect" /\ pc = "done") =>
        /\ result = 0 <=> Separation \in {args.angle, 360 * Deg - args.angle}
        /\ Abs(result) = Min(CircularDistance(Separation, args.angle),
                             CircularDistance(Separation, 360 * Deg - args.angle))

\* a call whose separation is nearer to 360 - angle than to the angle, and on
\* neither
C17_Witness ==
    /\ mode = "aspect" /\ pc = "done"
    /\ args.angle \in {60 * Deg, 90 * Deg, 120 * Deg}
    /\ result # 0
    /\ CircularDistance(Separation, 360 * Deg - args.angle)
         < CircularDistance(Separation, args.angle)

\* C18: _progressed_jd maps the natal instant to itself and an instant d days
\* from it to the natal instant plus d / 365.25 days (d / YearLen here), and the
\* longitude lon_at takes for a progressed planet is the longitude
\* build_timeline's _body_position gives for the planet at the mapped instant.
C18_DayForAYear ==
    (mode = "lon_at" /\ pc = "done") =>
        LET d == args.target - args.natal
        IN  /\ d = 0 => result.jd = _to_jd(args.natal)
            /\ YearLen * (result.jd - _to_jd(args.natal)) = _to_jd(d)
            /\ d % YearLen = 0 =>
                  result.lon = _body_position(args.natal + d \div YearLen, args.body).lon

\* a call two years after the natal instant, mapped to two days after it
C18_Witness ==
    /\ mode = "lon_at" /\ pc = "done"
    /\ args.target = args.natal + 2 * YearLen
    /\ result.jd = _to_jd(args.natal + 2)

\* the list the loops gathered with the results of two iterations exchanged
Exchanged(evs, i, j) ==
    [k \in 1..Len(evs) |-> IF k = i THEN evs[j] ELSE IF k = j THEN evs[i] ELSE evs[k]]

\* C19: whatever the order the triples are processed in, sorting by
\* transit_start gives the list the sequential order gives, events of equal
\* transit_start included.
C19_AnyOrderSameList ==
    pc = "done" =>
        \A i, j \in 1..Len(gathered) :
            sort_events(Exchanged(gathered, i, j)) = events

\* C19, amended: whatever the order the triples are processed in, sorting by
\* transit_start gives the same events with the same sequence of transit_start
\* values as the sequential order gives; events of equal transit_start keep the
\* order they were processed in.
C19_AnyOrderSameKeys ==
    pc = "done" =>
        \A i, j \in 1..Len(gathered) :
            LET other == sort_events(Exchanged(gathered, i, j))
            IN  /\ Len(other) = Len(events)
                /\ SeqToSet(other) = SeqToSet(events)
                /\ \A k \in 1..Len(events) :
                      other[k].transit_start = events[k].transit_start
                /\ \A k, l \in 1..Len(other) :
                      (k < l /\ other[k].transit_start = other[l].transit_start)
                      => \E m, n \in 1..Len(gathered) :
                            /\ m < n
                            /\ Exchanged(gathered, i, j)[m] = other[k]
                            /\ Exchanged(gathered, i, j)[n] = other[l]

\* a call that gathered two events of equal transit_start: processed in the
\* other order they are returned in the other order
C19_Witness ==
    /\ pc = "done"
    /\ \E i, j \in 1..Len(gathered) :
          /\ i < j
          /\ gathered[i].transit_start = gathered[j].transit_start
          /\ sort_events(Exchanged(gathered, i, j)) # events

\* C20: a builder called again with the same arguments in the same process,
\* whatever was called in between, returns what it returned before: the same
\* events, or the same failure.
C20_SameResultAgain ==
    (calls > 1 /\ pc \in {"done", "error"}) => <<pc, events>> = previous

\* a second call that returned events, made after the flag was set
C20_Witness ==
    /\ calls > 1 /\ pc = "done" /\ events # <<>>
    /\ _EPHE_VALIDATED

\* C21: every scan, every bisection and every station search that has started
\* ends, with a result or with an error.
C21_Terminates == <>(pc \in {"done", "error"})

\* a scan that went through every step of the schedule and a bisection of all
\* its iterations, and returned a root
C21_Witness ==
    /\ mode = "scan" /\ pc = "done"
    /\ result.level > Len(STEP_SCHEDULE_DAYS)
    /\ result.found # <<>>
    /\ args.end - args.start > STEP_SCHEDULE_DAYS[1]

(***************************************************************************)
(* The handlers of POST /v1/timeline and POST /v1/progression_timeline in  *)
(* main.py.  A request is args; the handler computes the natal chart, if   *)
(* it gets that far, calls the builder or the lunation catalogue, and      *)
(* answers with a status in result and the events of the payload.  A       *)
(* string of filters is the sequence of its words, separators and blanks.  *)
(***************************************************************************)
\* most events the lunation catalogue holds
MaxCatalogue == 2

\* the events load_lunations returns: rows of the catalogue file, in its order
LunationCatalogues ==
    LET Rows == [timestamp_utc : {isoformat(t) : t \in {2, 3, 5}},
                 type : {"new_moon", "full_moon", "solar_eclipse", "lunar_eclipse"},
                 eclipse_kind : {""}]
    IN  UNION { [1..n -> Rows] : n \in 0..MaxCatalogue }

\* LunationEvent.dt
dt(event) == Instant(event.timestamp_utc)

\* the empty set stands for None: both are false in "if type_filter and ..."
_parse_filters(raw) ==
    LET replaced == [i \in 1..Len(raw) |-> IF raw[i] = "|" THEN "," ELSE raw[i]]
        RECURSIVE split(_, _)
        split(rest, piece) ==
            IF rest = <<>> THEN <<piece>>
            ELSE IF Head(rest) = "," THEN <<piece>> \o split(Tail(rest), <<>>)
            ELSE split(Tail(rest), Append(piece, Head(rest)))
        RECURSIVE lstrip(_)
        lstrip(p) == IF p # <<>> /\ Head(p) = " " THEN lstrip(Tail(p)) ELSE p
        RECURSIVE rstrip(_)
        rstrip(p) == IF p # <<>> /\ p[Len(p)] = " "
                     THEN rstrip(SubSeq(p, 1, Len(p) - 1)) ELSE p
        strip(p) == rstrip(lstrip(p))
        pieces == split(replaced, <<>>)
        parts == SelectSeq([i \in 1..Len(pieces) |-> strip(pieces[i])],
                           LAMBDA p : p # <<>>)
    IN  IF raw = <<>> THEN {}
        ELSE IF parts = <<>> THEN {}
        ELSE IF Len(parts) = 1 /\ parts[1] \in {<<"all">>, <<"*">>} THEN {}
        ELSE {parts[i] : i \in 1..Len(parts)}

\* the events strictly inside the range
filter_lunations_open(start_utc, end_utc, lunation_type) ==
    LET type_filter == _parse_filters(lunation_type)
    IN  SelectSeq(_LUNATIONS_CACHE,
                  LAMBDA event : /\ ~(dt(event) <= Instant(start_utc)
                                      \/ dt(event) >= Instant(end_utc))
                                 /\ ~(type_filter # {} /\ <<event.type>> \notin type_filter))

filter_lunations(start_utc, end_utc, lunation_type) ==
    LET type_filter == _parse_filters(lunation_type)
    IN  SelectSeq(_LUNATIONS_CACHE,
                  LAMBDA event : /\ ~(dt(event) < Instant(start_utc)
                                      \/ dt(event) > Instant(end_utc))
                                 /\ ~(type_filter # {} /\ <<event.type>> \notin type_filter))

\* the levels the handler answers from the catalogue
LunationLevels == {"level3", "lunations", "eclipses", "new_moon", "full_moon",
                   "solar_eclipse", "lunar_eclipse"}

\* lunation_type: None, the two eclipse types, or the level itself
lunation_type_of(lvl) ==
    CASE lvl = "eclipses" -> <<"solar_eclipse", " ", "|", " ", "lunar_eclipse">>
      [] lvl \in {"new_moon", "full_moon", "solar_eclipse", "lunar_eclipse"} -> <<lvl>>
      [] OTHER -> <<>>

\* bodies of the request: None, a list, or 422 for a body the handler rejects
timeline_request_bodies(body) ==
    CASE body = "" -> [given |-> FALSE, list |-> <<>>]
      [] body = "nodes" -> [given |-> TRUE, list |-> <<"nn", "sn">>]
      [] body \in {"nn", "sn", "jupiter", "saturn", "uranus", "neptune", "pluto"} ->
            [given |-> TRUE, list |-> <<body>>]
      [] OTHER -> [given |-> FALSE, list |-> <<"unsupported">>]

\* the parameters build_progression_timeline declares
build_progression_timeline_params == {"natal_chart", "start_utc", "end_utc"}

\* the keywords the handler calls it with
progression_timeline_keywords == {"natal_chart", "start_utc", "end_utc", "step_years"}

\* a call with a keyword the function does not declare raises TypeError
_call_binds(keywords, params) == keywords \subseteq params

\* no chart computed
NoChart == [timestamp |-> 0, bodies |-> <<>>, angles |-> <<>>, points |-> <<>>]

InitApi ==
    /\ mode \in {"POST /v1/timeline", "POST /v1/progression_timeline"}
    /\ \E s \in {1, 3}, e \in {3, 5} :
          \/ /\ mode = "POST /v1/timeline"
             /\ _LUNATIONS_CACHE \in LunationCatalogues
             /\ args \in [start_utc : {isoformat(s)}, end_utc : {isoformat(e)},
                          level : LunationLevels, body : {""},
                          natal : {CHOOSE c \in NatalCharts : c.timestamp = 1}]
             /\ eph \in {x \in Ephemerides : x.lon0 = 0 /\ x.dir = 1 /\ x.lo < 0
                                             /\ x.station > MaxT}
             /\ ephe_files = "present"
          \/ /\ _LUNATIONS_CACHE = <<>>
             /\ args \in [start_utc : {isoformat(s)}, end_utc : {isoformat(e)},
                          level : {"pluto", "level2"}, body : {"", "nodes", "moon"},
                          natal : NatalCharts]
             /\ eph \in {x \in Ephemerides : x.lon0 \in {0, 5 * Deg}}
             /\ ephe_files \in {"present", "missing"}
    /\ natal_chart = NoChart
    /\ start_ts = 0
    /\ end_ts = 0
    /\ level = "level2"
    /\ bodies_arg = [given |-> FALSE, list |-> <<>>]
    /\ pc = "call"
    /\ events = <<>>
    /\ swallowed = FALSE
    /\ t0 = None
    /\ roots = <<>>
    /\ house_fault = "none"
    /\ fell_back = FALSE
    /\ result = None
    /\ gathered = <<>>
    /\ _EPHE_VALIDATED = FALSE
    /\ calls = 1
    /\ previous = <<>>

\* what no handler touches
ApiFrame == <<mode, start_ts, end_ts, level, bodies_arg, eph, t0, roots, house_fault,
              args, ephe_files, calls, previous, _LUNATIONS_CACHE>>

\* raise HTTPException(status_code=...), or an exception the application's
\* handler for Exception answers with 500
Answer(status) == result' = status /\ pc' = "error" /\ events' = <<>> /\ gathered' = <<>>

timeline ==
    /\ pc = "call" /\ mode = "POST /v1/timeline"
    /\ LET bodies == timeline_request_bodies(args.body)
           list == IF bodies.given THEN bodies.list ELSE LEVEL_BODIES[args.level]
           start == Instant(args.start_utc)
           end == Instant(args.end_utc)
           evs == Flatten([i \in 1..Len(list) |->
                      _timeline_body(list[i], args.natal, start, end)])
       IN  IF args.level \in LunationLevels
           THEN /\ events' = filter_lunations(args.start_utc, args.end_utc,
                                              lunation_type_of(args.level))
                /\ result' = 200
                /\ pc' = "done"
                /\ UNCHANGED <<natal_chart, gathered, fell_back, _EPHE_VALIDATED>>
           ELSE IF _ensure_ephe_path_raises
           THEN Answer(500) /\ UNCHANGED <<natal_chart, fell_back, _EPHE_VALIDATED>>
           ELSE /\ natal_chart' = args.natal
                /\ _EPHE_VALIDATED' = TRUE
                /\ IF bodies.list = <<"unsupported">>
                   THEN Answer(422) /\ UNCHANGED fell_back
                   ELSE IF \/ _timeline_raises(args.natal, list, start, end)
                           \/ _phase_house_raises(evs)
                   THEN Answer(500) /\ UNCHANGED fell_back
                   ELSE /\ Return(evs)
                        /\ fell_back' = _phase_house_falls_back(evs)
                        /\ result' = 200
    /\ UNCHANGED <<ApiFrame, swallowed>>

progression_timeline ==
    /\ pc = "call" /\ mode = "POST /v1/progression_timeline"
    /\ LET start == Instant(args.start_utc)
           end == Instant(args.end_utc)
       IN  IF _ensure_ephe_path_raises
           THEN Answer(500) /\ UNCHANGED <<natal_chart, swallowed, fell_back, _EPHE_VALIDATED>>
           ELSE /\ natal_chart' = args.natal
                /\ _EPHE_VALIDATED' = TRUE
                /\ IF \/ ~_call_binds(progression_timeline_keywords,
                                      build_progression_timeline_params)
                      \/ _progression_raises(args.natal, start, end)
                      \/ _progressed_context_raises(args.natal)
                   THEN Answer(500) /\ UNCHANGED <<swallowed, fell_back>>
                   ELSE /\ Return(Flatten([i \in 1..Len(progressed_bodies) |->
                               _progression_body(progressed_bodies[i], args.natal,
                                                 start, end)]))
                        /\ swallowed' = _progression_swallows(args.natal, start, end)
                        /\ fell_back' = _progressed_house_falls_back(args.natal)
                        /\ result' = 200
    /\ UNCHANGED ApiFrame

NextApi == timeline \/ progression_timeline

SpecApi == InitApi /\ [][NextApi]_vars

\* C22: a well-formed POST /v1/progression_timeline request, served with the
\* ephemeris installed, is answered with status 200 and a list of events.
C22_ProgressionAnswers200 ==
    (mode = "POST /v1/progression_timeline" /\ pc # "call" /\ ephe_files = "present")
        => (result = 200 /\ pc = "done")

\* the types a lunation level lets through
LevelTypes(lvl) ==
    CASE lvl = "eclipses" -> {"solar_eclipse", "lunar_eclipse"}
      [] lvl \in {"level3", "lunations"} ->
            {"new_moon", "full_moon", "solar_eclipse", "lunar_eclipse"}
      [] OTHER -> {lvl}

\* C23: a /v1/timeline request of a lunation level is answered with exactly the
\* catalogue entries at start <= t <= end whose type the level lets through, in
\* catalogue order, and computes no natal chart and no transit search.
C23_LunationsFromCatalogue ==
    (mode = "POST /v1/timeline" /\ args.level \in LunationLevels /\ pc # "call")
        => /\ pc = "done" /\ result = 200
           /\ events = SelectSeq(_LUNATIONS_CACHE,
                        LAMBDA e : /\ Instant(args.start_utc) <= Instant(e.timestamp_utc)
                                   /\ Instant(e.timestamp_utc) <= Instant(args.end_utc)
                                   /\ e.type \in LevelTypes(args.level))
           /\ natal_chart = NoChart /\ gathered = <<>> /\ ~_EPHE_VALIDATED

C23_Witness ==
    /\ mode = "POST /v1/timeline" /\ args.level = "eclipses" /\ pc = "done"
    /\ Len(_LUNATIONS_CACHE) = 2 /\ Len(events) = 1
    /\ events[1].timestamp_utc = args.start_utc

\* the instants the first pass of a scan of [start, end] evaluates func at
FirstPassSamples(start, end) ==
    {Min(start + k * STEP_SCHEDULE_DAYS[1], end) : k \in 0..(end - start)}

\* C24: a zero of the scanned function at an instant the scan samples, the start
\* of the range included, is among the roots _adaptive_roots_ts returns.
C24_ZeroSampleIsRoot ==
    (pc = "done" /\ mode = "roots") =>
        \A t \in FirstPassSamples(start_ts, end_ts) :
            Linear(t0)[t] = 0 => \E i \in 1..Len(roots) : roots[i] = t

\* C25: on the delta function and the range of a transit call, every exact hit
\* the station-segmented search returns is, within the finest step, a root the
\* adaptive scan returns.
C25_AdaptiveFindsSegmentHits ==
    (pc = "done" /\ mode = "transit") =>
        \A body \in SelectedBodies : \A target \in Targets : \A angle \in SeqToSet(ASPECT_ANGLES) :
            LET delta == DeltaOf(body, target.name, angle)
                segments == _segment_times(start_ts, end_ts,
                                _find_stations(IF body = "sn" THEN "nn" ELSE body,
                                               start_ts, end_ts))
                adaptive == _adaptive_roots_ts(delta, start_ts, end_ts)
            IN  \A s \in 1..Len(segments) :
                    LET exact == _find_exact_in_segment(delta, segments[s].seg_start,
                                                        segments[s].seg_end)
                    IN  exact # None =>
                            \E i \in 1..Len(adaptive) : Abs(adaptive[i] - exact) <= FinestStep

\* the stations build_timeline computes for a moving body of the call
StationsUsed(body) ==
    SeqToSet(_find_stations(IF body = "sn" THEN "nn" ELSE body, start_ts, end_ts))

\* C26: a station build_timeline uses for a body has kind R exactly when the
\* body's own speed is positive just before it and negative just after, and
\* kind D exactly when it is negative before and positive after.
C26_KindFromOwnSpeed ==
    (pc = "done" /\ mode = "transit") =>
        \A body \in SelectedBodies : \A st \in StationsUsed(body) :
            LET before == _body_position(st.jd - 1, body).speed
                after == _body_position(st.jd + 1, body).speed
            IN  /\ st.kind = "R" <=> (before > 0 /\ after < 0)
                /\ st.kind = "D" <=> (before < 0 /\ after > 0)

\* C27: a phase of build_timeline carries a station tag if and only if its
\* instant is within the tagging tolerance of a station detected for the event's
\* moving body in the range, and the tag is the kind of such a station.
C27_TagIffNearStation ==
    (pc = "done" /\ mode = "transit") =>
        \A ev \in EventsOf : \A k \in 1..Len(ev.phases) :
            LET tag == ev.phases[k].transit_station
                jd == Instant(ev.phases[k].timestamp_utc)
                near == {st \in StationsUsed(ev.transit_body) : Abs(st.jd - jd) < TAG_EPS}
            IN  /\ tag # "None" <=> near # {}
                /\ tag # "None" => \E st \in near : st.kind = tag

\* an event with a phase a tick after a station, tagged, and a phase further
\* away, untagged
C27_Witness ==
    /\ pc = "done" /\ mode = "transit"
    /\ \E ev \in EventsOf : \E k, u \in 1..Len(ev.phases) :
          /\ ev.phases[k].transit_station # "None"
          /\ \E st \in StationsUsed(ev.transit_body) :
                Instant(ev.phases[k].timestamp_utc) - st.jd = 1
          /\ ev.phases[u].transit_station = "None"

(***************************************************************************)
(* The last line of _adaptive_roots_ts on its own: the roots _find_root    *)
(* returned for the brackets, here in thirds of the rounding unit, are     *)
(* rounded, made a set and sorted.  A third of a unit is never half-way    *)
(* between two multiples of the unit.                                      *)
(***************************************************************************)
\* most roots the brackets give
MaxRoots == 3

\* parts of the rounding unit a root is measured in
SubUnits == 3

\* round(r, 6) of a root measured in parts of the sixth decimal
round6_in(r, unit) == ((2 * r + unit) \div (2 * unit)) * unit

\* the sorted set of the roots as they are
_sorted_roots_unrounded(found, unit) == SortedSeq({found[i] : i \in 1..Len(found)})

\* sorted({round(r, 6) for r in roots})
_sorted_roots(found, unit) == SortedSeq({round6_in(found[i], unit) : i \in 1..Len(found)})

InitDedupe ==
    /\ mode = "dedupe"
    /\ IdleInit
    /\ eph = [lon0 |-> 0, dir |-> 1, station |-> 0, lo |-> 0, hi |-> 0]
    /\ args \in UNION { [1..n -> 0..(2 * SubUnits)] : n \in 0..MaxRoots }
    /\ pc = "call"
    /\ result = None

sorted_rounded ==
    /\ pc = "call" /\ mode = "dedupe"
    /\ result' = _sorted_roots(args, SubUnits)
    /\ pc' = "done"
    /\ UNCHANGED <<mode, Idle, args>>

NextDedupe == sorted_rounded

SpecDedupe == InitDedupe /\ [][NextDedupe]_vars

\* the roots returned for two of the roots found
ReturnedFor(i, j) ==
    {k \in 1..Len(result) :
        result[k] \in {round6_in(args[i], SubUnits), round6_in(args[j], SubUnits)}}

\* C28: the list _adaptive_roots_ts returns is strictly ascending, and two roots
\* found that are closer than the rounding unit are returned as one root.
C28_AscendingCloseCollapse ==
    (pc = "done" /\ mode = "dedupe") =>
        /\ \A k \in 1..(Len(result) - 1) : result[k] < result[k + 1]
        /\ \A i, j \in 1..Len(args) :
              Abs(args[i] - args[j]) < SubUnits => Cardinality(ReturnedFor(i, j)) = 1

\* C28 (amended): the list is strictly ascending, and two roots found that round
\* to the same multiple of the rounding unit are returned as one root, which is
\* that multiple.
C28_AscendingOnePerUnit ==
    (pc = "done" /\ mode = "dedupe") =>
        /\ \A k \in 1..(Len(result) - 1) : result[k] < result[k + 1]
        /\ \A i, j \in 1..Len(args) :
              round6_in(args[i], SubUnits) = round6_in(args[j], SubUnits)
                  => Cardinality(ReturnedFor(i, j)) = 1

\* three roots found, two of them different and rounding to the same multiple
C28_Witness ==
    /\ pc = "done" /\ mode = "dedupe" /\ Len(args) = 3 /\ Len(result) = 2
    /\ \E i, j \in 1..Len(args) :
          args[i] # args[j] /\ round6_in(args[i], SubUnits) = round6_in(args[j], SubUnits)

(***************************************************************************)
(* A call of a builder with a range that ends before it starts: the        *)
(* builders do not compare start_utc and end_utc.                          *)
(***************************************************************************)
InitReversed ==
    /\ mode \in {"transit", "progression", "solar_arc"}
    /\ natal_chart \in NatalCharts
    /\ start_ts \in {2, 3, MaxT}
    /\ end_ts \in 0..(start_ts - 1)
    /\ \E a \in (CASE mode = "transit" -> TimelineArgs
                   [] mode = "progression" -> ProgressionArgs
                   [] OTHER -> SolarArcArgs) :
          /\ level = a.level
          /\ bodies_arg = [given |-> a.given, list |-> a.list]
    /\ eph \in Ephemerides
    /\ pc = "call"
    /\ events = <<>>
    /\ swallowed = FALSE
    /\ t0 = None
    /\ roots = <<>>
    /\ house_fault = "none"
    /\ fell_back = FALSE
    /\ args = <<>>
    /\ result = None
    /\ gathered = <<>>
    /\ FirstCall
    /\ _LUNATIONS_CACHE = <<>>

SpecReversed == InitReversed /\ [][Next]_vars

\* C29: a builder called with end_utc earlier than start_utc returns no event,
\* and so none whose transit_start is later than its transit_end.
C29_ReversedRangeIsEmpty ==
    (pc = "done" /\ end_ts < start_ts) =>
        /\ events = <<>>
        /\ \A ev \in EventsOf : Instant(ev.transit_start) <= Instant(ev.transit_end)

====
